---- MODULE Spec2Model ----
(***************************************************************************)
(* Model of ppt-img-extract (src/main.rs): the archive walker of main, the *)
(* components it routes entries to (export_media, rels, slide, page_no)    *)
(* and the per-page aggregate it builds and serialises.                    *)
(*                                                                         *)
(* Rust strings that the program inspects character by character (entry    *)
(* names, prefixes, the page-number pattern) are sequences of one-character*)
(* strings.  Slide markup is a sequence of tokens in which the two literal *)
(* tags of RE_TEXT are single tokens.                                      *)
(***************************************************************************)
EXTENDS Integers, Sequences, FiniteSets, TLC

\* Number of archive entries the walker reads at most.
MaxEntries == 3

(***************************************************************************)
(* Constants of main.rs, lines 31-37.                                      *)
(***************************************************************************)
DIR_MEDIA == <<"p", "p", "t", "/", "m", "e", "d", "i", "a">>

DIR_SLIDES_RELS == <<"p", "p", "t", "/", "s", "l", "i", "d", "e", "s", "/", "_", "r", "e", "l", "s">>

MASTER_RELS_DIR == <<"p", "p", "t", "/", "s", "l", "i", "d", "e", "M", "a", "s", "t", "e", "r", "s", "/", "_", "r", "e", "l", "s">>

DIR_SLIDES == <<"p", "p", "t", "/", "s", "l", "i", "d", "e", "s">>

INDEX_FILE == <<"i", "n", "d", "e", "x", ".", "j", "s", "o", "n">>

ATTR_REL_TYPE_IMAGE == "http://schemas.openxmlformats.org/officeDocument/2006/relationships/image"

(***************************************************************************)
(* Entry names of the archives explored.                                   *)
(***************************************************************************)
N_RELS_1 == <<"p", "p", "t", "/", "s", "l", "i", "d", "e", "s", "/", "_", "r", "e", "l", "s", "/", "s", "l", "i", "d", "e", "1", ".", "x", "m", "l", ".", "r", "e", "l", "s">>

N_RELS_2 == <<"p", "p", "t", "/", "s", "l", "i", "d", "e", "s", "/", "_", "r", "e", "l", "s", "/", "s", "l", "i", "d", "e", "2", ".", "x", "m", "l", ".", "r", "e", "l", "s">>

N_RELS_NOPAGE == <<"p", "p", "t", "/", "s", "l", "i", "d", "e", "s", "/", "_", "r", "e", "l", "s", "/", "n", "o", "t", "e", "s", ".", "x", "m", "l", ".", "r", "e", "l", "s">>

N_SLIDE_1 == <<"p", "p", "t", "/", "s", "l", "i", "d", "e", "s", "/", "s", "l", "i", "d", "e", "1", ".", "x", "m", "l">>

N_SLIDE_07 == <<"p", "p", "t", "/", "s", "l", "i", "d", "e", "s", "/", "s", "l", "i", "d", "e", "0", "7", ".", "x", "m", "l">>

N_SLIDE_BIG == <<"p", "p", "t", "/", "s", "l", "i", "d", "e", "s", "/", "s", "l", "i", "d", "e", "4", "2", "9", "4", "9", "6", "7", "2", "9", "6", ".", "x", "m", "l">>

N_SLIDE_NODOT == <<"p", "p", "t", "/", "s", "l", "i", "d", "e", "s", "/", "s", "l", "i", "d", "e", "1", "2", "x", "m", "l">>

N_SLIDE_NOPAGE == <<"p", "p", "t", "/", "s", "l", "i", "d", "e", "s", "/", "n", "o", "t", "e", "s", ".", "x", "m", "l">>

N_MREL_1 == <<"p", "p", "t", "/", "s", "l", "i", "d", "e", "M", "a", "s", "t", "e", "r", "s", "/", "_", "r", "e", "l", "s", "/", "s", "l", "i", "d", "e", "M", "a", "s", "t", "e", "r", "1", ".", "x", "m", "l", ".", "r", "e", "l", "s">>

N_MASTER_1 == <<"p", "p", "t", "/", "s", "l", "i", "d", "e", "M", "a", "s", "t", "e", "r", "s", "/", "s", "l", "i", "d", "e", "M", "a", "s", "t", "e", "r", "1", ".", "x", "m", "l">>

N_MEDIA_1 == <<"p", "p", "t", "/", "m", "e", "d", "i", "a", "/", "i", "m", "a", "g", "e", "1", ".", "p", "n", "g">>

N_MEDIA_SUB == <<"p", "p", "t", "/", "m", "e", "d", "i", "a", "/", "s", "u", "b", "/", "i", "m", "a", "g", "e", "1", ".", "p", "n", "g">>

N_MEDIA_DOTS == <<"p", "p", "t", "/", "m", "e", "d", "i", "a", "/", ".", ".">>

N_THEME == <<"p", "p", "t", "/", "t", "h", "e", "m", "e", "/", "t", "h", "e", "m", "e", "1", ".", "x", "m", "l">>

N_DIR_SLIDES == <<"p", "p", "t", "/", "s", "l", "i", "d", "e", "s", "/">>

(***************************************************************************)
(* String helpers: str::starts_with, and a literal found at a position.    *)
(***************************************************************************)
StartsWith(s, p) == Len(s) >= Len(p) /\ SubSeq(s, 1, Len(p)) = p

HasAt(s, pos, lit) == pos >= 1 /\ pos + Len(lit) - 1 <= Len(s) /\ \A k \in 1..Len(lit) : s[pos + k - 1] = lit[k]

Digits == {"0", "1", "2", "3", "4", "5", "6", "7", "8", "9"}

DigitVal(c) == CASE c = "0" -> 0 [] c = "1" -> 1 [] c = "2" -> 2 [] c = "3" -> 3 [] c = "4" -> 4
                 [] c = "5" -> 5 [] c = "6" -> 6 [] c = "7" -> 7 [] c = "8" -> 8 [] c = "9" -> 9

\* Length of the run of digits of s that starts at position pos.
RECURSIVE DigitRunLen(_, _)
DigitRunLen(s, pos) == IF pos <= Len(s) /\ s[pos] \in Digits THEN 1 + DigitRunLen(s, pos + 1) ELSE 0

(***************************************************************************)
(* str::parse::<u32>: the decimal value, or an overflow error when the     *)
(* value exceeds u32::MAX.  The comparison is made on the numeral, so that *)
(* no value beyond the 32 bits is ever computed.                           *)
(***************************************************************************)
U32_MAX_DIGITS == <<"4", "2", "9", "4", "9", "6", "7", "2", "9", "5">>

RECURSIVE StripZeros(_)
StripZeros(ds) == IF Len(ds) > 1 /\ ds[1] = "0" THEN StripZeros(Tail(ds)) ELSE ds

\* ds > es for two numerals of the same length.
RECURSIVE NumeralGreater(_, _)
NumeralGreater(ds, es) ==
    IF ds = <<>> THEN FALSE
    ELSE IF DigitVal(ds[1]) # DigitVal(es[1]) THEN DigitVal(ds[1]) > DigitVal(es[1])
    ELSE NumeralGreater(Tail(ds), Tail(es))

FitsU32(ds) ==
    LET n == StripZeros(ds) IN
    \/ Len(n) < Len(U32_MAX_DIGITS)
    \/ Len(n) = Len(U32_MAX_DIGITS) /\ ~NumeralGreater(n, U32_MAX_DIGITS)

RECURSIVE DecimalValue(_, _)
DecimalValue(ds, acc) == IF ds = <<>> THEN acc ELSE DecimalValue(Tail(ds), acc * 10 + DigitVal(ds[1]))

ParseU32(ds) == IF FitsU32(ds) THEN [tag |-> "Ok", val |-> DecimalValue(ds, 0)]
                ELSE [tag |-> "Err", val |-> 0]

(***************************************************************************)
(* RE_PAGE_NO = (slide|slideMaster)(\d+).xml, searched anywhere in the     *)
(* name: leftmost start, first alternative first, the digit run greedy but *)
(* giving digits back, and the dot matching any character but a newline.   *)
(***************************************************************************)
KW_SLIDE == <<"s", "l", "i", "d", "e">>

KW_SLIDEMASTER == <<"s", "l", "i", "d", "e", "M", "a", "s", "t", "e", "r">>

XML_TAIL == <<"x", "m", "l">>

\* The digit run \d+ that starts at position j takes k digits at first and
\* gives one back as long as the rest of the pattern, .xml, does not follow:
\* the number of digits of the match, 0 when there is none.
RECURSIVE DigitsTaken(_, _, _)
DigitsTaken(s, j, k) ==
    IF k = 0 THEN 0
    ELSE IF j + k <= Len(s) /\ s[j + k] # "\n" /\ HasAt(s, j + k + 1, XML_TAIL) THEN k
    ELSE DigitsTaken(s, j, k - 1)

\* The number of digits of the match of kw\d+.xml at position pos, 0 when there is none.
DigitCount(s, pos, kw) ==
    IF HasAt(s, pos, kw) THEN DigitsTaken(s, pos + Len(kw), DigitRunLen(s, pos + Len(kw))) ELSE 0

\* Capture group 2 of the match that starts at position pos, <<>> when there is none.
CaptureAt(s, pos) ==
    LET short == DigitCount(s, pos, KW_SLIDE)
        long == DigitCount(s, pos, KW_SLIDEMASTER)
    IN  IF short > 0 THEN SubSeq(s, pos + Len(KW_SLIDE), pos + Len(KW_SLIDE) + short - 1)
        ELSE IF long > 0 THEN SubSeq(s, pos + Len(KW_SLIDEMASTER), pos + Len(KW_SLIDEMASTER) + long - 1)
        ELSE <<>>

\* Capture group 2 of the leftmost match, <<>> when the pattern matches nowhere.
RECURSIVE CaptureFrom(_, _)
CaptureFrom(s, pos) ==
    IF pos > Len(s) THEN <<>>
    ELSE LET cap == CaptureAt(s, pos) IN IF cap # <<>> THEN cap ELSE CaptureFrom(s, pos + 1)

RE_PAGE_NO(s) == CaptureFrom(s, 1)

(***************************************************************************)
(* page_no: Ok(n), Err("Can't find valid page no"), or the panic of the    *)
(* unwrap on a numeral that does not fit a u32.                            *)
(***************************************************************************)
page_no(fname) ==
    LET cap == RE_PAGE_NO(fname)
        parsed == ParseU32(cap)
    IN  IF cap = <<>> THEN [tag |-> "Err", val |-> 0]
        ELSE IF parsed.tag = "Ok" THEN [tag |-> "Ok", val |-> parsed.val]
        ELSE [tag |-> "Panic", val |-> 0]

(***************************************************************************)
(* Path::file_name on a slash-delimited string: the last component, None   *)
(* when the path is empty, is the root, or ends in "..".  Path::components *)
(* drops empty components and every "." but a leading one.                 *)
(***************************************************************************)
\* Option::None of file_name: no component is ever empty.
None == <<>>

\* Position of the first token c of s at or after position pos, 0 when there is none.
RECURSIVE IndexOf(_, _, _)
IndexOf(s, c, pos) == IF pos > Len(s) THEN 0 ELSE IF s[pos] = c THEN pos ELSE IndexOf(s, c, pos + 1)

RECURSIVE Split(_)
Split(s) ==
    LET slash == IndexOf(s, "/", 1) IN
    IF slash = 0 THEN <<s>>
    ELSE <<SubSeq(s, 1, slash - 1)>> \o Split(SubSeq(s, slash + 1, Len(s)))

RECURSIVE DropCurDir(_)
DropCurDir(parts) ==
    IF parts = <<>> THEN <<>>
    ELSE IF Head(parts) \in {<<>>, <<".">>} THEN DropCurDir(Tail(parts))
    ELSE <<Head(parts)>> \o DropCurDir(Tail(parts))

Components(s) ==
    LET parts == Split(s) IN
    IF s = <<>> THEN <<>>
    ELSE IF s[1] = "/" THEN <<<<"/">>>> \o DropCurDir(parts)
    ELSE IF parts[1] = <<".">> THEN <<<<".">>>> \o DropCurDir(Tail(parts))
    ELSE DropCurDir(parts)

file_name(s) ==
    LET c == Components(s) IN
    IF c = <<>> THEN None
    ELSE IF c[Len(c)] \in {<<"/">>, <<".">>, <<".", ".">>} THEN None
    ELSE c[Len(c)]

(***************************************************************************)
(* Archive entries.  An entry is what the zip and XML libraries give the   *)
(* program for it: its name, whether by_index can open it, whether its     *)
(* bytes are UTF-8, whether they are well-formed XML and then the children *)
(* of the root element, and its text as markup tokens.                     *)
(***************************************************************************)
T_A == <<".", ".", "/", "m", "e", "d", "i", "a", "/", "a", ".", "p", "n", "g">>

T_B == <<".", ".", "/", "m", "e", "d", "i", "a", "/", "b", ".", "p", "n", "g">>

T_LAYOUT == <<".", ".", "/", "s", "l", "i", "d", "e", "L", "a", "y", "o", "u", "t", "s", "/", "l", ".", "x", "m", "l">>

F_A == <<"a", ".", "p", "n", "g">>

F_B == <<"b", ".", "p", "n", "g">>

TYPE_LAYOUT == "http://schemas.openxmlformats.org/officeDocument/2006/relationships/slideLayout"

Rel(type, id, target) ==
    [kind |-> "Element", name |-> "Relationship", attributes |-> [Type |-> type, Id |-> id, Target |-> target]]

RelNoType(id, target) ==
    [kind |-> "Element", name |-> "Relationship", attributes |-> [Id |-> id, Target |-> target]]

RelNoTarget(type, id) ==
    [kind |-> "Element", name |-> "Relationship", attributes |-> [Type |-> type, Id |-> id]]

RelNoId(type, target) ==
    [kind |-> "Element", name |-> "Relationship", attributes |-> [Type |-> type, Target |-> target]]

OtherElement(type, id, target) ==
    [kind |-> "Element", name |-> "Extension", attributes |-> [Type |-> type, Id |-> id, Target |-> target]]

CommentNode == [kind |-> "Comment", name |-> "", attributes |-> <<>>]

D_EMPTY == <<>>

D_A == <<Rel(ATTR_REL_TYPE_IMAGE, "rId1", T_A)>>

D_AB == <<Rel(ATTR_REL_TYPE_IMAGE, "rId1", T_A), Rel(ATTR_REL_TYPE_IMAGE, "rId2", T_B)>>

D_B == <<Rel(ATTR_REL_TYPE_IMAGE, "rId1", T_B)>>

D_MIX == <<Rel(TYPE_LAYOUT, "rId1", T_LAYOUT), Rel(ATTR_REL_TYPE_IMAGE, "rId2", T_B),
           OtherElement(ATTR_REL_TYPE_IMAGE, "rId3", T_A)>>

D_DUP == <<Rel(ATTR_REL_TYPE_IMAGE, "rId1", T_A), Rel(ATTR_REL_TYPE_IMAGE, "rId1", T_B)>>

D_NOTYPE == <<RelNoType("rId1", T_B), Rel(ATTR_REL_TYPE_IMAGE, "rId2", T_A)>>

D_NOTARGET == <<RelNoTarget(ATTR_REL_TYPE_IMAGE, "rId1"), Rel(ATTR_REL_TYPE_IMAGE, "rId2", T_A)>>

D_NOID == <<Rel(ATTR_REL_TYPE_IMAGE, "rId1", T_A), RelNoId(ATTR_REL_TYPE_IMAGE, T_B)>>

D_COMMENT == <<CommentNode, Rel(ATTR_REL_TYPE_IMAGE, "rId1", T_A)>>

Docs == {D_EMPTY, D_A, D_AB, D_B, D_MIX, D_DUP, D_NOTYPE, D_NOTARGET, D_NOID, D_COMMENT}

\* The two tags of RE_TEXT, each one token of the markup.
OPEN == "<a:t>"

CLOSE == "</a:t>"

X_NONE == <<"x">>

X_ONE == <<OPEN, "a", CLOSE>>

X_TWO == <<OPEN, "a", "b", CLOSE, "x", OPEN, "b", CLOSE>>

X_THREE == <<OPEN, "a", CLOSE, OPEN, "b", CLOSE, OPEN, "a", CLOSE>>

X_EMPTYPAIR == <<OPEN, CLOSE>>

X_EMPTYFIRST == <<OPEN, CLOSE, OPEN, "b", CLOSE>>

X_UNCLOSED == <<OPEN, "a">>

Contents == {X_NONE, X_ONE, X_TWO, X_THREE, X_EMPTYPAIR, X_EMPTYFIRST, X_UNCLOSED}

RelsEntry(name, doc) ==
    [name |-> name, openable |-> TRUE, utf8 |-> TRUE, wf |-> TRUE, children |-> doc, content |-> <<>>]

MalformedEntry(name) ==
    [name |-> name, openable |-> TRUE, utf8 |-> TRUE, wf |-> FALSE, children |-> <<>>, content |-> <<>>]

SlideEntry(name, content) ==
    [name |-> name, openable |-> TRUE, utf8 |-> TRUE, wf |-> TRUE, children |-> <<>>, content |-> content]

BinaryEntry(name) ==
    [name |-> name, openable |-> TRUE, utf8 |-> FALSE, wf |-> FALSE, children |-> <<>>, content |-> <<>>]

LockedEntry(name) ==
    [name |-> name, openable |-> FALSE, utf8 |-> FALSE, wf |-> FALSE, children |-> <<>>, content |-> <<>>]

\* The entries an archive may hold; the walker names an entry by its place in this list.
Pool ==
    <<RelsEntry(N_RELS_1, D_EMPTY), RelsEntry(N_RELS_1, D_A), RelsEntry(N_RELS_1, D_AB),
      RelsEntry(N_RELS_1, D_B), RelsEntry(N_RELS_1, D_MIX), RelsEntry(N_RELS_1, D_DUP),
      RelsEntry(N_RELS_1, D_NOTYPE), RelsEntry(N_RELS_1, D_NOTARGET), RelsEntry(N_RELS_1, D_NOID),
      RelsEntry(N_RELS_1, D_COMMENT), MalformedEntry(N_RELS_1),
      RelsEntry(N_RELS_2, D_A), RelsEntry(N_RELS_NOPAGE, D_A),
      RelsEntry(N_MREL_1, D_A), RelsEntry(N_MREL_1, D_AB), MalformedEntry(N_MREL_1),
      SlideEntry(N_SLIDE_1, X_NONE), SlideEntry(N_SLIDE_1, X_ONE), SlideEntry(N_SLIDE_1, X_TWO),
      SlideEntry(N_SLIDE_1, X_THREE), SlideEntry(N_SLIDE_1, X_EMPTYPAIR),
      SlideEntry(N_SLIDE_1, X_EMPTYFIRST), SlideEntry(N_SLIDE_1, X_UNCLOSED),
      SlideEntry(N_SLIDE_07, X_ONE), SlideEntry(N_SLIDE_BIG, X_ONE), SlideEntry(N_SLIDE_NODOT, X_ONE),
      SlideEntry(N_SLIDE_NOPAGE, X_ONE), BinaryEntry(N_SLIDE_1), LockedEntry(N_SLIDE_1),
      SlideEntry(N_MASTER_1, X_ONE),
      BinaryEntry(N_MEDIA_1), BinaryEntry(N_MEDIA_SUB), BinaryEntry(N_MEDIA_DOTS),
      SlideEntry(N_THEME, X_NONE), BinaryEntry(N_DIR_SLIDES)>>

Entries == 1..Len(Pool)

\* No entry read yet.
NoFile == 0

\* ZipFile::is_dir: the name ends with a slash.
is_dir(f) == Len(f.name) > 0 /\ f.name[Len(f.name)] = "/"

(***************************************************************************)
(* rels: the image relationships of a relationship document as a map from  *)
(* Id to the base name of Target, with the page number of the entry name.  *)
(***************************************************************************)
\* The closure of the filter at lines 243-247, on a child that is an element.
IsImageRel(node) ==
    /\ node.name = "Relationship"
    /\ "Type" \in DOMAIN node.attributes
    /\ node.attributes["Type"] = ATTR_REL_TYPE_IMAGE

\* The unwraps of lines 244, 251, 253 and 256.
NodePanics(node) ==
    \/ node.kind # "Element"
    \/ /\ IsImageRel(node)
       /\ \/ "Target" \notin DOMAIN node.attributes
          \/ "Id" \notin DOMAIN node.attributes
          \/ file_name(node.attributes["Target"]) = None

\* HashMap::insert: the map with key k bound to v.
MapInsert(m, k, v) == (k :> v) @@ m

\* HashMap::new
EmptyMap == <<>>

\* The loop of lines 248-260 with an insert that keeps the value an Id already has.
RECURSIVE ImageMap_KeepFirst(_, _)
ImageMap_KeepFirst(children, m) ==
    IF children = <<>> THEN m
    ELSE IF IsImageRel(Head(children)) /\ Head(children).attributes["Id"] \notin DOMAIN m
    THEN ImageMap_KeepFirst(Tail(children),
                            MapInsert(m, Head(children).attributes["Id"],
                                      file_name(Head(children).attributes["Target"])))
    ELSE ImageMap_KeepFirst(Tail(children), m)

\* The loop of lines 248-260 over children that do not panic.
RECURSIVE ImageMap(_, _)
ImageMap(children, m) ==
    IF children = <<>> THEN m
    ELSE IF IsImageRel(Head(children))
    THEN ImageMap(Tail(children),
                  MapInsert(m, Head(children).attributes["Id"],
                            file_name(Head(children).attributes["Target"])))
    ELSE ImageMap(Tail(children), m)

rels(f) ==
    IF ~f.wf THEN [tag |-> "Err", page_no |-> 0, rels |-> EmptyMap]
    ELSE IF \E k \in 1..Len(f.children) : NodePanics(f.children[k])
    THEN [tag |-> "Panic", page_no |-> 0, rels |-> EmptyMap]
    ELSE LET page == page_no(f.name) IN
         IF page.tag # "Ok" THEN [tag |-> page.tag, page_no |-> 0, rels |-> EmptyMap]
         ELSE [tag |-> "Ok", page_no |-> page.val, rels |-> ImageMap(f.children, EmptyMap)]

(***************************************************************************)
(* HashMap::values: the values of the map in an order the hasher chooses.  *)
(***************************************************************************)
Values(m) ==
    {[k \in 1..Cardinality(DOMAIN m) |-> m[ord[k]]] :
        ord \in {o \in [1..Cardinality(DOMAIN m) -> DOMAIN m] :
                    \A a, b \in 1..Cardinality(DOMAIN m) : a # b => o[a] # o[b]}}

(***************************************************************************)
(* slide: the captures of RE_TEXT = <a:t>([\s\S]+?)</a:t> in the markup,   *)
(* in order, with the page number of the entry name.                       *)
(***************************************************************************)
\* The closing tag that ends a match opened at position pos: the first one
\* that leaves at least one token for the group.  0 when there is none.
CloseFor(c, pos) == IndexOf(c, CLOSE, pos + 2)

\* Position of the first match at or after position from, 0 when there is none.
RECURSIVE NextMatch(_, _)
NextMatch(c, from) ==
    LET start == IndexOf(c, OPEN, from) IN
    IF start = 0 THEN 0
    ELSE IF CloseFor(c, start) # 0 THEN start
    ELSE NextMatch(c, start + 1)

RECURSIVE captures_iter(_, _)
captures_iter(c, from) ==
    LET start == NextMatch(c, from) IN
    IF start = 0 THEN <<>>
    ELSE <<SubSeq(c, start + 1, CloseFor(c, start) - 1)>> \o captures_iter(c, CloseFor(c, start) + 1)

RE_TEXT(c) == captures_iter(c, 1)

slide(f) ==
    IF ~f.utf8 THEN [tag |-> "Err", page_no |-> 0, texts |-> <<>>]
    ELSE LET page == page_no(f.name) IN
         IF page.tag # "Ok" THEN [tag |-> page.tag, page_no |-> 0, texts |-> <<>>]
         ELSE [tag |-> "Ok", page_no |-> page.val, texts |-> RE_TEXT(f.content)]

(***************************************************************************)
(* The aggregate: Res.pages with its two maps from page number to          *)
(* SingleRes, and the two merges of main.                                  *)
(***************************************************************************)
SingleRes(page, master, images, texts) ==
    [page_no |-> page, slide_master |-> master, images |-> images, texts |-> texts]

\* HashMap::entry(k).or_insert_with(new)
EntryOrInsert(m, k, new) == IF k \in DOMAIN m THEN m ELSE MapInsert(m, k, new)

\* The merge of lines 99-109 storing a fresh record instead of updating the one found.
MergeImages_Replace(m, page, master, images) == MapInsert(m, page, SingleRes(page, master, images, <<>>))

\* The merge of lines 99-109 extending the images of the record instead of assigning them.
MergeImages_Extend(m, page, master, images) ==
    LET e == EntryOrInsert(m, page, SingleRes(page, master, <<>>, <<>>)) IN
    [e EXCEPT ![page].images = e[page].images \o images]

\* The merge of lines 143-153 assigning the wrong field of the record.
MergeImages_IntoTexts(m, page, master, images) ==
    [EntryOrInsert(m, page, SingleRes(page, master, <<>>, <<>>)) EXCEPT ![page].texts = images]

\* Lines 99-109 (master = FALSE) and 143-153 (master = TRUE).
MergeImages(m, page, master, images) ==
    [EntryOrInsert(m, page, SingleRes(page, master, <<>>, <<>>)) EXCEPT ![page].images = images]

\* The merge of lines 128-138 storing the record slide returned, whose images are empty.
MergeTexts_Replace(m, page, texts) == MapInsert(m, page, SingleRes(page, FALSE, <<>>, texts))

\* Lines 128-138.
MergeTexts(m, page, texts) ==
    [EntryOrInsert(m, page, SingleRes(page, FALSE, <<>>, texts)) EXCEPT ![page].texts = texts]

\* The prefix tests of main, in the order of lines 86, 95, 115 and 139.
Classify(fname) ==
    IF StartsWith(fname, DIR_MEDIA) THEN "export_media"
    ELSE IF StartsWith(fname, DIR_SLIDES_RELS) THEN "rels"
    ELSE IF StartsWith(fname, DIR_SLIDES) THEN "slide"
    ELSE IF StartsWith(fname, MASTER_RELS_DIR) THEN "master_rels"
    ELSE "ignored"

(***************************************************************************)
(* What the loop body computes from an entry alone: whether line 80 opens  *)
(* it, whether lines 81-83 skip it as a directory, the branch its name     *)
(* selects, and what export_media, rels or slide make of it.               *)
(***************************************************************************)
\* The markup holds an opening tag with a closing tag after it.
HasTagPair(c) == \E a, b \in 1..Len(c) : a < b /\ c[a] = OPEN /\ c[b] = CLOSE

\* A function of the entries as a table, computed once.
Table(fn) == fn @@ <<>>

Branch ==
    Table([n \in Entries |->
        IF ~Pool[n].openable THEN "locked"
        ELSE IF is_dir(Pool[n]) THEN "dir"
        ELSE Classify(Pool[n].name)])

RoutedTo(branch) == {n \in Entries : Branch[n] = branch}

Resolved == Table([n \in Entries |-> rels(Pool[n])])

Extracted == Table([n \in Entries |-> slide(Pool[n])])

OutFileName == Table([n \in Entries |-> file_name(Pool[n].name)])

TagPair == Table([n \in Entries |-> HasTagPair(Pool[n].content)])

\* The relationship document holds a Relationship element of the image type.
HasImageRel(children) ==
    \E k \in 1..Len(children) : children[k].kind = "Element" /\ IsImageRel(children[k])

ImageRel == Table([n \in Entries |-> HasImageRel(Pool[n].children)])

\* One more entry merged into key k.
Counted(m, k) == MapInsert(m, k, IF k \in DOMAIN m THEN m[k] + 1 ELSE 1)

(***************************************************************************)
(* State.                                                                  *)
(*   pc         "walk" in the loop of main, "done" once index.json is      *)
(*              written, "aborted_entry" after a panic while an entry is   *)
(*              handled, "aborted_output" after a failed write of the index*)
(*   i          number of entries read so far                              *)
(*   file       the entry read last, by its place in Pool                   *)
(*   routed     the component that entry was handed to                     *)
(*   out        what the component returned                                *)
(*   res        res.pages: [slides, masters]                               *)
(*   exported   the files of the output directory: base name -> source     *)
(*   index      the content of index.json                                  *)
(* History, kept for the properties only:                                  *)
(*   lastImages what the last relationship entry handled without error     *)
(*              returned for each key, [slides, masters]                   *)
(*   lastTexts  what the last slide markup entry handled without error     *)
(*              returned for each slide page                               *)
(*   imageRels  the slide pages whose last such relationship document held *)
(*              an image relationship                                      *)
(*   textRuns   the slide pages whose last such markup held a tag pair     *)
(*   seen       how many entries were merged into each key, by branch      *)
(***************************************************************************)
VARIABLES pc, i, file, routed, out, res, exported, index, lastImages, lastTexts, imageRels, textRuns, seen

hist == <<lastImages, lastTexts, imageRels, textRuns, seen>>

vars == <<pc, i, file, routed, out, res, exported, index, lastImages, lastTexts, imageRels, textRuns, seen>>

NoOut == [tag |-> "None", page_no |-> 0, images |-> <<>>, texts |-> <<>>]

EmptyPages == [slides |-> EmptyMap, masters |-> EmptyMap]

\* index.json not written.
NoIndex == [written |-> FALSE, pages |-> EmptyPages]

Init ==
    /\ pc = "walk"
    /\ i = 0
    /\ file = NoFile
    /\ routed = "none"
    /\ out = NoOut
    /\ res = EmptyPages
    /\ exported = EmptyMap
    /\ index = NoIndex
    /\ lastImages = EmptyPages
    /\ lastTexts = EmptyMap
    /\ imageRels = {}
    /\ textRuns = {}
    /\ seen = [rels |-> EmptyMap, slide |-> EmptyMap, master_rels |-> EmptyMap]

\* by_index(i) yields entry f: the walker is in its loop and the archive has a further entry.
Reads(f) ==
    /\ pc = "walk"
    /\ i < MaxEntries
    /\ file' = f
    /\ i' = i + 1

\* What a component's result does to the run: a panic ends it, anything else goes on.
After(tag) == IF tag = "Panic" THEN "aborted_entry" ELSE "walk"

\* Line 80: by_index(i).unwrap() on an entry the archive cannot open.
OpenFails ==
    \E f \in RoutedTo("locked") :
        /\ Reads(f)
        /\ pc' = "aborted_entry"
        /\ routed' = "none"
        /\ out' = [NoOut EXCEPT !.tag = "Panic"]
        /\ UNCHANGED <<res, exported, index, hist>>

\* Lines 81-83.
SkipDir ==
    \E f \in RoutedTo("dir") :
        /\ Reads(f)
        /\ routed' = "dir"
        /\ out' = NoOut
        /\ UNCHANGED <<pc, res, exported, index, hist>>

\* Lines 86-94 and export_media, lines 206-218.  io is what the file system
\* does: the output file cannot be created, the copy fails midway, or all is written.
ExportMedia ==
    \E f \in RoutedTo("export_media"), io \in {"create_failed", "copy_failed", "ok"} :
        /\ Reads(f)
        /\ routed' = "export_media"
        /\ IF OutFileName[f] = None
           THEN /\ out' = [NoOut EXCEPT !.tag = "Panic"]
                /\ pc' = "aborted_entry"
                /\ UNCHANGED exported
           ELSE /\ out' = [NoOut EXCEPT !.tag = IF io = "ok" THEN "Ok" ELSE "Err"]
                /\ pc' = "walk"
                /\ exported' = CASE io = "create_failed" -> exported
                                 [] io = "copy_failed" -> MapInsert(exported, OutFileName[f], "truncated")
                                 [] io = "ok" -> MapInsert(exported, OutFileName[f], Pool[f].name)
        /\ UNCHANGED <<res, index, hist>>

\* Lines 95-114.
SlideRels ==
    \E f \in RoutedTo("rels") :
        /\ Reads(f)
        /\ routed' = "rels"
        /\ LET r == Resolved[f] IN
           /\ pc' = After(r.tag)
           /\ IF r.tag = "Ok"
              THEN \E images \in Values(r.rels) :
                       /\ out' = [tag |-> "Ok", page_no |-> r.page_no, images |-> images, texts |-> <<>>]
                       /\ res' = [res EXCEPT !.slides = MergeImages(res.slides, r.page_no, FALSE, images)]
                       /\ lastImages' = [lastImages EXCEPT !.slides = MapInsert(lastImages.slides, r.page_no, images)]
                       /\ imageRels' = IF ImageRel[f] THEN imageRels \cup {r.page_no} ELSE imageRels \ {r.page_no}
                       /\ seen' = [seen EXCEPT !.rels = Counted(seen.rels, r.page_no)]
              ELSE /\ out' = [NoOut EXCEPT !.tag = r.tag]
                   /\ UNCHANGED <<res, lastImages, imageRels, seen>>
        /\ UNCHANGED <<exported, index, lastTexts, textRuns>>

\* Lines 115-138.
Slide ==
    \E f \in RoutedTo("slide") :
        /\ Reads(f)
        /\ routed' = "slide"
        /\ LET page_res == Extracted[f] IN
           /\ pc' = After(page_res.tag)
           /\ out' = [tag |-> page_res.tag, page_no |-> page_res.page_no, images |-> <<>>, texts |-> page_res.texts]
           /\ IF page_res.tag = "Ok"
              THEN /\ res' = [res EXCEPT !.slides = MergeTexts(res.slides, page_res.page_no, page_res.texts)]
                   /\ lastTexts' = MapInsert(lastTexts, page_res.page_no, page_res.texts)
                   /\ textRuns' = IF TagPair[f]
                                  THEN textRuns \cup {page_res.page_no}
                                  ELSE textRuns \ {page_res.page_no}
                   /\ seen' = [seen EXCEPT !.slide = Counted(seen.slide, page_res.page_no)]
              ELSE UNCHANGED <<res, lastTexts, textRuns, seen>>
        /\ UNCHANGED <<exported, index, lastImages, imageRels>>

\* Lines 139-158.
MasterRels ==
    \E f \in RoutedTo("master_rels") :
        /\ Reads(f)
        /\ routed' = "master_rels"
        /\ LET r == Resolved[f] IN
           /\ pc' = After(r.tag)
           /\ IF r.tag = "Ok"
              THEN \E images \in Values(r.rels) :
                       /\ out' = [tag |-> "Ok", page_no |-> r.page_no, images |-> images, texts |-> <<>>]
                       /\ res' = [res EXCEPT !.masters = MergeImages(res.masters, r.page_no, TRUE, images)]
                       /\ lastImages' = [lastImages EXCEPT !.masters = MapInsert(lastImages.masters, r.page_no, images)]
                       /\ seen' = [seen EXCEPT !.master_rels = Counted(seen.master_rels, r.page_no)]
              ELSE /\ out' = [NoOut EXCEPT !.tag = r.tag]
                   /\ UNCHANGED <<res, lastImages, seen>>
        /\ UNCHANGED <<exported, index, lastTexts, imageRels, textRuns>>

\* An entry that matches none of the four prefixes: the chain of lines 86-159 has no final else.
Ignore ==
    \E f \in RoutedTo("ignored") :
        /\ Reads(f)
        /\ routed' = "ignored"
        /\ out' = NoOut
        /\ UNCHANGED <<pc, res, exported, index, hist>>

\* Lines 161-164: the archive has no further entry; the index is serialised
\* and written, and the unwrap of fs::write panics when the write fails.
Finish ==
    \E written \in BOOLEAN :
        /\ pc = "walk"
        /\ pc' = IF written THEN "done" ELSE "aborted_output"
        /\ index' = IF written THEN [written |-> TRUE, pages |-> res] ELSE NoIndex
        /\ UNCHANGED <<i, file, routed, out, res, exported, hist>>

Next ==
    \/ OpenFails
    \/ SkipDir
    \/ ExportMedia
    \/ SlideRels
    \/ Slide
    \/ MasterRels
    \/ Ignore
    \/ Finish

Spec == Init /\ [][Next]_vars

\* The run takes its steps: main is one sequential loop that nothing suspends.
FairSpec == Spec /\ WF_vars(Next)

TypeOK ==
    /\ pc \in {"walk", "done", "aborted_entry", "aborted_output"}
    /\ i \in 0..MaxEntries
    /\ file \in Entries \cup {NoFile}
    /\ routed \in {"none", "dir", "export_media", "rels", "slide", "master_rels", "ignored"}
    /\ out.tag \in {"None", "Ok", "Err", "Panic"}
    /\ \A p \in DOMAIN res.slides : res.slides[p].page_no = p /\ ~res.slides[p].slide_master
    /\ \A p \in DOMAIN res.masters : res.masters[p].page_no = p /\ res.masters[p].slide_master

(***************************************************************************)
(* Properties.                                                             *)
(***************************************************************************)
\* The entry read last.
Last == Pool[file]

\* The last step handed an entry to branch b and the component returned Ok.
Handled(b) == file # NoFile /\ routed = b /\ out.tag = "Ok"

\* The record the last step merged into.
Merged == IF routed = "master_rels" THEN res.masters[out.page_no] ELSE res.slides[out.page_no]

Count(m, k) == IF k \in DOMAIN m THEN m[k] ELSE 0

ValueAt(m, k) == IF k \in DOMAIN m THEN m[k] ELSE <<>>

(***************************************************************************)
(* C1.  An entry under ppt/slides/_rels/ goes to the relationship resolver *)
(* and never to the text extractor; and when the run is over, a slide page *)
(* whose relationship entry held an image relationship and whose markup    *)
(* entry held a text run has a record with images and with texts.          *)
(* The second part fails: the run that reads slide1.xml.rels with an image *)
(* relationship and slide1.xml = <a:t></a:t> ends with no texts.           *)
(***************************************************************************)
C1_RelsRoutedAndBothNonEmpty ==
    /\ (file # NoFile /\ Last.openable /\ ~is_dir(Last) /\ StartsWith(Last.name, DIR_SLIDES_RELS))
           => routed = "rels"
    /\ pc = "done" =>
           \A p \in imageRels \cap textRuns :
               /\ p \in DOMAIN res.slides
               /\ res.slides[p].images # <<>>
               /\ res.slides[p].texts # <<>>

\* The outputs of the relationship entries and of the markup entries, by page.
RelsOutputs ==
    UNION {{<<Resolved[n].page_no, images>> : images \in Values(Resolved[n].rels)} :
              n \in {e \in RoutedTo("rels") : Resolved[e].tag = "Ok"}}

SlideOutputs ==
    {<<Extracted[n].page_no, Extracted[n].texts>> : n \in {e \in RoutedTo("slide") : Extracted[e].tag = "Ok"}}

C3_Frame ==
    [][/\ \A p \in DOMAIN res.slides :
              /\ p \in DOMAIN res'.slides
              /\ res'.slides[p].page_no = res.slides[p].page_no
              /\ res'.slides[p].slide_master = res.slides[p].slide_master
              /\ (i' # i /\ routed' = "rels" /\ out'.tag = "Ok" /\ out'.page_no = p)
                     => res'.slides[p].texts = res.slides[p].texts
              /\ (i' # i /\ routed' = "slide" /\ out'.tag = "Ok" /\ out'.page_no = p)
                     => res'.slides[p].images = res.slides[p].images
              /\ ~(i' # i /\ routed' \in {"rels", "slide"} /\ out'.tag = "Ok" /\ out'.page_no = p)
                     => res'.slides[p] = res.slides[p]
       /\ \A p \in DOMAIN res.masters :
              /\ p \in DOMAIN res'.masters
              /\ res'.masters[p].page_no = res.masters[p].page_no
              /\ res'.masters[p].slide_master = res.masters[p].slide_master
              /\ res'.masters[p].texts = res.masters[p].texts
              /\ ~(i' # i /\ routed' = "master_rels" /\ out'.tag = "Ok" /\ out'.page_no = p)
                     => res'.masters[p] = res.masters[p]
      ]_vars

\* Images were merged into a record that has texts, beside a record with another key.
C3_ImagesMergedBesideTexts ==
    /\ Handled("rels")
    /\ Count(seen.slide, out.page_no) > 0
    /\ Merged.texts # <<>>
    /\ Merged.images # <<>>
    /\ Cardinality(DOMAIN res.slides) >= 2

(***************************************************************************)
(* C4.  No single entry's failure aborts the run: the walker never ends in *)
(* a panic raised while it handles an entry.  This fails: an image         *)
(* relationship without a Target, a child of the relationship document that*)
(* is no element, a page number beyond u32, or an entry that cannot be     *)
(* opened each end the run at an unwrap.                                   *)
(***************************************************************************)
C4_NoEntryAborts == pc # "aborted_entry"

(***************************************************************************)
(* C5.  The images stored for a relationship document are the base names   *)
(* of the Targets of its image relationships.                              *)
(***************************************************************************)
ImageRelsOf(children) == {k \in 1..Len(children) : IsImageRel(children[k])}

\* As the specification has it: one name per image relationship, in the order of the elements.
RECURSIVE InDocumentOrder(_)
InDocumentOrder(children) ==
    IF children = <<>> THEN <<>>
    ELSE IF IsImageRel(Head(children))
    THEN <<file_name(Head(children).attributes["Target"])>> \o InDocumentOrder(Tail(children))
    ELSE InDocumentOrder(Tail(children))

\* C5 as stated: the stored images are in the order of the Relationship
\* elements, one per image relationship.  This fails: the order is that of a
\* hash map, and a repeated Id counts once.
C5_ImagesInDocumentOrder ==
    (Handled("rels") \/ Handled("master_rels")) => Merged.images = InDocumentOrder(Last.children)

\* The Ids of the image relationships, and the base name each Id resolves to:
\* that of the last element that carries the Id.
IdsOf(children) == {children[k].attributes["Id"] : k \in ImageRelsOf(children)}

NameOf(children, id) ==
    LET ks == {k \in ImageRelsOf(children) : children[k].attributes["Id"] = id}
        last == CHOOSE k \in ks : \A j \in ks : j <= k
    IN  file_name(children[last].attributes["Target"])

Occurrences(seq, x) == Cardinality({k \in 1..Len(seq) : seq[k] = x})

\* C5 as amended: the stored images hold the base name of each distinct
\* image-relationship Id once (the last Target when an Id repeats), in some order.
C5_ImagesAreTheResolvedNames ==
    (Handled("rels") \/ Handled("master_rels")) =>
        /\ Len(Merged.images) = Cardinality(IdsOf(Last.children))
        /\ \A id \in IdsOf(Last.children) :
               Occurrences(Merged.images, NameOf(Last.children, id))
                   = Cardinality({d \in IdsOf(Last.children) :
                                     NameOf(Last.children, d) = NameOf(Last.children, id)})

\* A document of two image relationships was stored in the reverse of its order.
C5_StoredOutOfOrder ==
    /\ Handled("rels")
    /\ Cardinality(ImageRelsOf(Last.children)) = 2
    /\ Len(Merged.images) = 2
    /\ Merged.images # InDocumentOrder(Last.children)

\* The inner texts of the tag pairs: each opening tag with the next closing tag.
RECURSIVE InnerTexts(_, _)
InnerTexts(c, from) ==
    LET open == IndexOf(c, OPEN, from)
        close == IF open = 0 THEN 0 ELSE IndexOf(c, CLOSE, open + 1)
    IN  IF open = 0 \/ close = 0 THEN <<>>
        ELSE <<SubSeq(c, open + 1, close - 1)>> \o InnerTexts(c, close + 1)

(***************************************************************************)
(* C6.  Markup that holds N tag pairs <a:t>...</a:t> in sequence yields N  *)
(* texts in order, the empty string for an empty pair.  This fails: the    *)
(* group of RE_TEXT takes at least one character, so <a:t></a:t> alone     *)
(* yields nothing and <a:t></a:t><a:t>b</a:t> yields the one text          *)
(* </a:t><a:t>b.                                                           *)
(***************************************************************************)
C6_OneTextPerTagPair ==
    Handled("slide") =>
        /\ out.texts = InnerTexts(Last.content, 1)
        /\ Merged.texts = InnerTexts(Last.content, 1)

DOT_XML == <<".", "x", "m", "l">>

\* The digits of the first <category><digits>.xml in the name, <<>> when there is none.
RECURSIVE NumeralOf(_, _)
NumeralOf(s, from) ==
    LET afterShort == from + Len(KW_SLIDE)
        afterLong == from + Len(KW_SLIDEMASTER)
        short == IF HasAt(s, from, KW_SLIDE) THEN DigitRunLen(s, afterShort) ELSE 0
        long == IF HasAt(s, from, KW_SLIDEMASTER) THEN DigitRunLen(s, afterLong) ELSE 0
    IN  IF from > Len(s) THEN <<>>
        ELSE IF short > 0 /\ HasAt(s, afterShort + short, DOT_XML)
        THEN SubSeq(s, afterShort, afterShort + short - 1)
        ELSE IF long > 0 /\ HasAt(s, afterLong + long, DOT_XML)
        THEN SubSeq(s, afterLong, afterLong + long - 1)
        ELSE NumeralOf(s, from + 1)

\* The last step called page_no on the name of the entry.
PageNoCalled ==
    /\ file # NoFile
    /\ \/ routed = "slide" /\ Last.utf8
       \/ /\ routed \in {"rels", "master_rels"}
          /\ Last.wf
          /\ \A k \in 1..Len(Last.children) : ~NodePanics(Last.children[k])

(***************************************************************************)
(* C7.  For a name that holds <category><digits>.xml the page identifier   *)
(* returns the value of the digits, and for any other name it returns an   *)
(* error.  This fails: slide4294967296.xml panics at the unwrap of the     *)
(* parse, and slide12xml, which has no dot, yields page 1.                 *)
(***************************************************************************)
C7_PageNumberOrError ==
    PageNoCalled =>
        IF NumeralOf(Last.name, 1) # <<>>
        THEN out.tag = "Ok" /\ out.page_no = DecimalValue(NumeralOf(Last.name, 1), 0)
        ELSE out.tag = "Err"

\* A Relationship element that lacks Type, Id or Target.
Incomplete(node) ==
    /\ node.kind = "Element"
    /\ node.name = "Relationship"
    /\ ~({"Type", "Id", "Target"} \subseteq DOMAIN node.attributes)

\* The image relationships that carry both Id and Target.
Complete(children) ==
    {k \in ImageRelsOf(children) : {"Id", "Target"} \subseteq DOMAIN children[k].attributes}

(***************************************************************************)
(* C8.  A relationship element that lacks Type, Id or Target is left out   *)
(* of the result and the rest of the document is resolved.  This fails for *)
(* an image relationship that lacks Id or Target: rels panics at the       *)
(* unwrap of lines 251 and 253.                                            *)
(***************************************************************************)
C8_IncompleteElementSkipped ==
    (/\ file # NoFile
     /\ routed \in {"rels", "master_rels"}
     /\ Last.wf
     /\ \A k \in 1..Len(Last.children) : Last.children[k].kind = "Element"
     /\ \E k \in 1..Len(Last.children) : Incomplete(Last.children[k])
     /\ page_no(Last.name).tag = "Ok")
        => /\ out.tag = "Ok"
           /\ Len(out.images) = Cardinality({Last.children[k].attributes["Id"] : k \in Complete(Last.children)})
           /\ \A k \in Complete(Last.children) :
                  \E n \in 1..Len(out.images) :
                      out.images[n] = file_name(Last.children[k].attributes["Target"])

(***************************************************************************)
(* C9.  The last entry wins: the images of a record are what the last      *)
(* relationship entry handled for its key returned and its texts what the  *)
(* last markup entry handled for its key returned, empty when there was    *)
(* none; never a concatenation of what earlier and later entries returned. *)
(***************************************************************************)
C9_LastEntryWins ==
    /\ DOMAIN res.slides = DOMAIN lastImages.slides \cup DOMAIN lastTexts
    /\ DOMAIN res.masters = DOMAIN lastImages.masters
    /\ \A p \in DOMAIN res.slides :
           /\ res.slides[p].images = ValueAt(lastImages.slides, p)
           /\ res.slides[p].texts = ValueAt(lastTexts, p)
    /\ \A p \in DOMAIN res.masters : res.masters[p].images = lastImages.masters[p]

\* A second entry of the same kind was merged into a key that had images, or texts, already.
C9_SecondEntryMerged ==
    \/ Handled("rels") /\ seen.rels[out.page_no] >= 2 /\ Merged.images # <<>>
    \/ Handled("slide") /\ seen.slide[out.page_no] >= 2 /\ Merged.texts # <<>>

(***************************************************************************)
(* C10.  Every record of the masters map has no texts, in every reachable  *)
(* state, and only a step that handles an entry under                      *)
(* ppt/slideMasters/_rels changes the masters map.                         *)
(***************************************************************************)
C10_MastersHaveNoTexts ==
    /\ [](\A p \in DOMAIN res.masters : res.masters[p].texts = <<>>)
    /\ [][res'.masters # res.masters =>
              /\ routed' = "master_rels"
              /\ StartsWith(Pool[file'].name, MASTER_RELS_DIR)]_vars

\* Slide-master markup was read while the masters map held a record with images.
C10_MasterMarkupIgnored ==
    /\ file # NoFile
    /\ routed = "ignored"
    /\ Last.name = N_MASTER_1
    /\ 1 \in DOMAIN res.masters
    /\ res.masters[1].images # <<>>

====
